---- MODULE Spec2Model ----
(***************************************************************************)
(* A model of backend/server.py: the text analysis                         *)
(* (count_repeated_words, count_common_repeated_words), the text           *)
(* extraction (extract_text) and the upload handler (count_common_words)   *)
(* that stores two uploads under the shared uploads folder, analyses them  *)
(* and removes them again.                                                 *)
(*                                                                         *)
(* A text is a sequence of one-character strings.  A mapping (a Python     *)
(* dict or Counter) is a function whose domain is its key set.             *)
(***************************************************************************)
EXTENDS Integers, Sequences, FiniteSets, TLC

VARIABLES
    doc1,       \* the first text handed to the analysis (SpecText)
    doc2,       \* the second text handed to the analysis (SpecText)
    call,       \* which call of count_common_repeated_words has returned
    repeated1,  \* local repeated1 of that call
    repeated2,  \* local repeated2 of that call
    common,     \* the mapping that call returned
    fs,         \* the uploads folder: path -> stored file, or NoFile
    worker,     \* per worker process: the handler invocation it is running
    served      \* number of requests accepted so far

textVars == <<doc1, doc2, call, repeated1, repeated2, common>>
handlerVars == <<fs, worker, served>>
vars == <<doc1, doc2, call, repeated1, repeated2, common, fs, worker, served>>

----------------------------------------------------------------------------
(* Bounds *)

\* Longest text enumerated exhaustively over Alphabet.
MaxLen == 4

\* Total number of requests the workers accept.
MaxRequests == 2

----------------------------------------------------------------------------
(* Characters *)

LowerLetters == {"a", "b", "c", "d", "f", "p", "t", "x", "y", "z"}
UpperLetters == {"A", "C", "D", "F", "P", "T"}
WordChars == LowerLetters \cup UpperLetters \cup {"_", "0", "1"}
SpaceChars == {" ", "\n", "\t"}

\* The characters enumerated exhaustively: two cases of one letter, a second
\* letter, a whitespace character and a punctuation character.
Alphabet == {"a", "A", "b", " ", ","}

\* str.lower() on one character.
LowerChar(c) ==
    CASE c = "A" -> "a"
      [] c = "C" -> "c"
      [] c = "D" -> "d"
      [] c = "F" -> "f"
      [] c = "P" -> "p"
      [] c = "T" -> "t"
      [] OTHER -> c

\* str.lower()
Lower(s) == [i \in 1..Len(s) |-> LowerChar(s[i])]

\* The character class [^\w\s] of the regular expression.
IsPunct(c) == c \notin WordChars /\ c \notin SpaceChars

\* re.sub(r'[^\w\s]', '', s): scan s and drop every match.
RECURSIVE ReSub(_)
ReSub(s) ==
    IF s = <<>> THEN <<>>
    ELSE IF IsPunct(Head(s)) THEN ReSub(Tail(s))
    ELSE <<Head(s)>> \o ReSub(Tail(s))

\* str.split() with no separator: the maximal runs of non-whitespace.
\* cur is the token being read, acc the tokens finished so far.
RECURSIVE SplitFrom(_, _, _)
SplitFrom(s, cur, acc) ==
    IF s = <<>> THEN (IF cur = <<>> THEN acc ELSE Append(acc, cur))
    ELSE IF Head(s) \in SpaceChars
         THEN SplitFrom(Tail(s), <<>>, IF cur = <<>> THEN acc ELSE Append(acc, cur))
    ELSE SplitFrom(Tail(s), Append(cur, Head(s)), acc)

Split(s) == SplitFrom(s, <<>>, <<>>)

----------------------------------------------------------------------------
(* Mappings *)

EmptyMap == [w \in {} |-> 0]

\* dict.get(key, default)
Get(m, k, d) == IF k \in DOMAIN m THEN m[k] ELSE d

\* Counter(words): one pass over the list, adding 1 to the entry of each word.
RECURSIVE CounterFrom(_, _)
CounterFrom(words, m) ==
    IF words = <<>> THEN m
    ELSE LET w == Head(words)
         IN  CounterFrom(Tail(words),
                         IF w \in DOMAIN m
                         THEN [m EXCEPT ![w] = @ + 1]
                         ELSE [k \in DOMAIN m \cup {w} |-> IF k = w THEN 1 ELSE m[k]])

Counter(words) == CounterFrom(words, EmptyMap)

Min(a, b) == IF a <= b THEN a ELSE b

----------------------------------------------------------------------------
(* The analysis *)

\* Line 34: the cleaned text.
Cleaned(text) == ReSub(Lower(text))

\* A plausible slip: the filter keeps every counted word (count >= 1).
count_repeated_words_keep_all(text) ==
    Counter(Split(Cleaned(text)))

\* A plausible slip: the filter asks for more than two occurrences.
count_repeated_words_more_than_two(text) ==
    LET counter == Counter(Split(Cleaned(text)))
    IN  [word \in {w \in DOMAIN counter : counter[w] > 2} |-> counter[word]]

count_repeated_words(text) ==
    LET cleaned == Cleaned(text)
        words == Split(cleaned)
        counter == Counter(words)
    IN  [word \in {w \in DOMAIN counter : counter[w] > 1} |-> counter[word]]

\* A plausible slip: the comprehension loses its "if word in repeated2".
count_common_repeated_words_no_filter(text1, text2) ==
    LET r1 == count_repeated_words(text1)
        r2 == count_repeated_words(text2)
    IN  [word \in DOMAIN r1 |-> Min(Get(r1, word, 0), Get(r2, word, 0))]

\* A plausible slip: the first document's count is reported instead of the min.
count_common_repeated_words_first(text1, text2) ==
    LET r1 == count_repeated_words(text1)
        r2 == count_repeated_words(text2)
    IN  [word \in {w \in DOMAIN r1 : w \in DOMAIN r2} |-> Get(r1, word, 0)]

\* A plausible slip: max where min is meant.
count_common_repeated_words_max(text1, text2) ==
    LET r1 == count_repeated_words(text1)
        r2 == count_repeated_words(text2)
        c1(w) == Get(r1, w, 0)
        c2(w) == Get(r2, w, 0)
    IN  [word \in {w \in DOMAIN r1 : w \in DOMAIN r2} |->
            IF c1(word) >= c2(word) THEN c1(word) ELSE c2(word)]

count_common_repeated_words(text1, text2) ==
    LET r1 == count_repeated_words(text1)
        r2 == count_repeated_words(text2)
    IN  [word \in {w \in DOMAIN r1 : w \in DOMAIN r2} |->
            Min(Get(r1, word, 0), Get(r2, word, 0))]

----------------------------------------------------------------------------
(* Input texts *)

\* The one-letter word c.
Word(c) == <<c>>

RECURSIVE TextsOfLen(_)
TextsOfLen(n) ==
    IF n = 0 THEN {<<>>}
    ELSE {Append(t, c) : t \in TextsOfLen(n - 1), c \in Alphabet}

TextsUpTo(n) == UNION {TextsOfLen(k) : k \in 0..n}

\* "Cat, cat CAT."
CatText == <<"C", "a", "t", ",", " ", "c", "a", "t", " ", "C", "A", "T", ".">>
\* "a a b"
AABText == <<"a", " ", "a", " ", "b">>
\* "x x x y y" and "x x x x x z z"
XYText == <<"x", " ", "x", " ", "x", " ", "y", " ", "y">>
XZText == <<"x", " ", "x", " ", "x", " ", "x", " ", "x", " ", "z", " ", "z">>
\* "aa aa" and "bb bb"
AAText == <<"a", "a", " ", "a", "a">>
BBText == <<"b", "b", " ", "b", "b">>
\* "a a" and "a a a"
A2Text == <<"a", " ", "a">>
A3Text == <<"a", " ", "a", " ", "a">>
\* "b a,A\tb\n\nB!" and "_1 a _1 b"
MixedText == <<"b", " ", "a", ",", "A", "\t", "b", "\n", "\n", "B", "!">>
UnderscoreText == <<"_", "1", " ", "a", " ", "_", "1", " ", "b">>

\* "b b a a a"
BBAAAText == <<"b", " ", "b", " ", "a", " ", "a", " ", "a">>

SampleTexts ==
    {<<>>, CatText, AABText, XYText, XZText, AAText, BBText, A2Text, A3Text,
     MixedText, UnderscoreText, BBAAAText}

----------------------------------------------------------------------------
(* Uploads, paths and stored files *)

\* The folder every request stores its uploads in.
UPLOAD_FOLDER == <<"u", "p", "l", "o", "a", "d", "s">>

\* A file name, and a path, is the sequence of its parts between dots.
APdf == <<Word("a"), <<"p", "d", "f">>>>
BPdfUpper == <<Word("b"), <<"P", "D", "F">>>>
CTxt == <<Word("c"), <<"t", "x", "t">>>>
FileNames == {APdf, BPdfUpper, CTxt}

\* os.path.join(UPLOAD_FOLDER, filename): the folder and a slash go in front
\* of the first part of the name.
PathJoin(folder, filename) ==
    <<folder \o <<"/">> \o Head(filename)>> \o Tail(filename)

Paths == {PathJoin(UPLOAD_FOLDER, n) : n \in FileNames}

\* A page of a PDF: page.extract_text() returns its text or None.
Page(t) == [has_text |-> TRUE, text |-> t]
NonePage == [has_text |-> FALSE, text |-> <<>>]

\* Two readable PDFs ("a a\na" and "a a\n\na a") and bytes that are no PDF.
PdfA == [kind |-> "pdf", pages |-> <<Page(A2Text), Page(Word("a"))>>]
PdfB == [kind |-> "pdf", pages |-> <<Page(A2Text), NonePage, Page(A2Text)>>]
Corrupt == [kind |-> "corrupt", pages |-> <<>>]
\* What open(path, "wb") leaves when the copy after it fails.
Truncated == [kind |-> "empty", pages |-> <<>>]

Upload(n, c) == [filename |-> n, content |-> c]
NoUpload == [filename |-> <<>>, content |-> Truncated]

\* The uploads a request draws its two files from.
Uploads ==
    {Upload(APdf, PdfA), Upload(BPdfUpper, PdfB), Upload(BPdfUpper, Corrupt),
     Upload(CTxt, PdfA)}

NoFile == [kind |-> "absent", content |-> Truncated, writer |-> 0]
StoredFile(c, id) == [kind |-> "file", content |-> c, writer |-> id]

----------------------------------------------------------------------------
(* extract_text *)

\* "sep".join(parts)
RECURSIVE Join(_, _)
Join(sep, parts) ==
    IF parts = <<>> THEN <<>>
    ELSE IF Len(parts) = 1 THEN Head(parts)
    ELSE Head(parts) \o sep \o Join(sep, Tail(parts))

\* "\n".join(page.extract_text() or "" for page in reader.pages)
PdfText(content) ==
    Join(<<"\n">>,
         [i \in 1..Len(content.pages) |->
            IF content.pages[i].has_text THEN content.pages[i].text ELSE <<>>])

Returned(t) == [ok |-> TRUE, text |-> t, message |-> [exc |-> "none", about |-> <<>>]]
Raised(exc, about) == [ok |-> FALSE, text |-> <<>>, message |-> [exc |-> exc, about |-> about]]

\* file_path.split('.')[-1].lower()
ExtOf(path) == Lower(path[Len(path)])

\* extract_text(file_path) on the folder as it is now: the text, or the
\* exception raised.
extract_text(path, folder) ==
    IF ExtOf(path) # <<"p", "d", "f">>
    THEN Raised("ValueError: Unsupported file type", ExtOf(path))
    ELSE IF folder[path].kind = "absent"
    THEN Raised("FileNotFoundError", path)
    ELSE IF folder[path].content.kind # "pdf"
    THEN Raised("PdfReadError", Word(folder[path].content.kind))
    ELSE Returned(PdfText(folder[path].content))

----------------------------------------------------------------------------
(* The handler count_common_words, one invocation per worker process *)

\* The worker processes serving the endpoint.  The handler is a coroutine
\* without an await, so one process runs one invocation at a time, start to
\* end; invocations in different worker processes share the uploads folder
\* (a path relative to the working directory) and interleave at their
\* file-system calls.
Workers == {"w1", "w2"}

NoResult == [kind |-> "none", mapping |-> EmptyMap, message |-> [exc |-> "none", about |-> <<>>]]
\* common_repeated_words as a mapping.
Mapping(m) == [kind |-> "mapping", mapping |-> m, message |-> [exc |-> "none", about |-> <<>>]]
\* f"Error: {str(e)}"
ErrorString(msg) == [kind |-> "Error: ", mapping |-> EmptyMap, message |-> msg]

NoResponse == [sent |-> FALSE, filename1 |-> <<>>, filename2 |-> <<>>,
               common_repeated_words |-> NoResult]
Response(n1, n2, r) == [sent |-> TRUE, filename1 |-> n1, filename2 |-> n2,
                        common_repeated_words |-> r]

\* pc: idle, write1, write2, extract1, extract2, remove1, remove2, then done
\* (the response was returned) or failed (an exception left the handler).
\* id, log, ex1, ex2 and interfered record what the invocation did.
IdleWorker ==
    [pc |-> "idle", id |-> 0, file1 |-> NoUpload, file2 |-> NoUpload,
     file_path1 |-> <<>>, file_path2 |-> <<>>, text1 |-> <<>>, text2 |-> <<>>,
     common_repeated_words |-> NoResult, response |-> NoResponse,
     log |-> <<>>, ex1 |-> Returned(<<>>), ex2 |-> Returned(<<>>),
     interfered |-> FALSE]

InFlight(w) == worker[w].pc \notin {"idle", "done", "failed"}
Ended(w) == worker[w].pc \in {"done", "failed"}

\* The file at path was last written by another request that is still running.
OthersFile(w, path) ==
    /\ fs[path].kind = "file"
    /\ fs[path].writer # worker[w].id
    /\ \E o \in Workers : o # w /\ InFlight(o) /\ worker[o].id = fs[path].writer

\* Lines 49-51: the request arrives with its two uploads; the paths are built.
Receive(w) ==
    /\ ~InFlight(w)
    /\ served < MaxRequests
    /\ \E u1 \in Uploads, u2 \in Uploads :
        worker' = [worker EXCEPT ![w] =
            [IdleWorker EXCEPT !.pc = "write1", !.id = served + 1,
                               !.file1 = u1, !.file2 = u2,
                               !.file_path1 = PathJoin(UPLOAD_FOLDER, u1.filename),
                               !.file_path2 = PathJoin(UPLOAD_FOLDER, u2.filename)]]
    /\ served' = served + 1
    /\ UNCHANGED <<fs, textVars>>

\* Lines 52-53: the first upload is stored at file_path1.
Write1(w) ==
    LET r == worker[w]
    IN  /\ r.pc = "write1"
        /\ fs' = [fs EXCEPT ![r.file_path1] = StoredFile(r.file1.content, r.id)]
        /\ worker' = [worker EXCEPT ![w].pc = "write2",
                                    ![w].log = Append(r.log, "write1"),
                                    ![w].interfered = @ \/ OthersFile(w, r.file_path1)]
        /\ UNCHANGED <<served, textVars>>

\* Lines 54-55: the second upload is stored at file_path2.
Write2(w) ==
    LET r == worker[w]
    IN  /\ r.pc = "write2"
        /\ fs' = [fs EXCEPT ![r.file_path2] = StoredFile(r.file2.content, r.id)]
        /\ worker' = [worker EXCEPT ![w].pc = "extract1",
                                    ![w].log = Append(r.log, "write2"),
                                    ![w].interfered = @ \/ OthersFile(w, r.file_path2)]
        /\ UNCHANGED <<served, textVars>>

\* A plausible slip: each extraction has a try of its own, so a failure of
\* the first does not skip the second.
Extract1KeepsGoing(w) ==
    LET r == worker[w]
        out == extract_text(r.file_path1, fs)
    IN  /\ r.pc = "extract1"
        /\ worker' = [worker EXCEPT
                ![w].pc = "extract2",
                ![w].log = Append(r.log, "extract1"),
                ![w].ex1 = out,
                ![w].text1 = out.text,
                ![w].common_repeated_words =
                    IF out.ok THEN @ ELSE ErrorString(out.message),
                ![w].interfered = @ \/ OthersFile(w, r.file_path1)]
        /\ UNCHANGED <<fs, served, textVars>>

\* Line 58, and lines 61-62 when it raises: text1 = extract_text(file_path1).
Extract1(w) ==
    LET r == worker[w]
        out == extract_text(r.file_path1, fs)
    IN  /\ r.pc = "extract1"
        /\ worker' = [worker EXCEPT
                ![w].pc = IF out.ok THEN "extract2" ELSE "remove1",
                ![w].log = Append(r.log, "extract1"),
                ![w].ex1 = out,
                ![w].text1 = out.text,
                ![w].common_repeated_words =
                    IF out.ok THEN @ ELSE ErrorString(out.message),
                ![w].interfered = @ \/ OthersFile(w, r.file_path1)]
        /\ UNCHANGED <<fs, served, textVars>>

\* Lines 59-60, and lines 61-62 when line 59 raises:
\* text2 = extract_text(file_path2), then the analysis of text1 and text2.
Extract2(w) ==
    LET r == worker[w]
        out == extract_text(r.file_path2, fs)
    IN  /\ r.pc = "extract2"
        /\ worker' = [worker EXCEPT
                ![w].pc = "remove1",
                ![w].log = Append(r.log, "extract2"),
                ![w].ex2 = out,
                ![w].text2 = out.text,
                ![w].common_repeated_words =
                    IF out.ok
                    THEN Mapping(count_common_repeated_words(r.text1, out.text))
                    ELSE ErrorString(out.message),
                ![w].interfered = @ \/ OthersFile(w, r.file_path2)]
        /\ UNCHANGED <<fs, served, textVars>>

\* Line 65: os.remove(file_path1); FileNotFoundError leaves the handler when
\* the file is not there.
Remove1(w) ==
    LET r == worker[w]
    IN  /\ r.pc = "remove1"
        /\ IF fs[r.file_path1].kind = "file"
           THEN /\ fs' = [fs EXCEPT ![r.file_path1] = NoFile]
                /\ worker' = [worker EXCEPT
                        ![w].pc = "remove2",
                        ![w].log = Append(r.log, "remove1"),
                        ![w].interfered = @ \/ OthersFile(w, r.file_path1)]
           ELSE /\ fs' = fs
                /\ worker' = [worker EXCEPT
                        ![w].pc = "failed",
                        ![w].log = Append(r.log, "remove1")]
        /\ UNCHANGED <<served, textVars>>

\* Lines 66-67: os.remove(file_path2), then the response is returned.
Remove2(w) ==
    LET r == worker[w]
    IN  /\ r.pc = "remove2"
        /\ IF fs[r.file_path2].kind = "file"
           THEN /\ fs' = [fs EXCEPT ![r.file_path2] = NoFile]
                /\ worker' = [worker EXCEPT
                        ![w].pc = "done",
                        ![w].log = Append(r.log, "remove2"),
                        ![w].response = Response(r.file1.filename, r.file2.filename,
                                                 r.common_repeated_words),
                        ![w].interfered = @ \/ OthersFile(w, r.file_path2)]
           ELSE /\ fs' = fs
                /\ worker' = [worker EXCEPT
                        ![w].pc = "failed",
                        ![w].log = Append(r.log, "remove2")]
        /\ UNCHANGED <<served, textVars>>

\* Lines 52-55 when the operating system fails the write (a full disk, a
\* revoked permission): open() raises and the folder is as before, or the copy
\* raises and leaves the file open() truncated.  Nothing catches it.
WriteFails(w) ==
    LET r == worker[w]
        path == IF r.pc = "write1" THEN r.file_path1 ELSE r.file_path2
    IN  /\ r.pc \in {"write1", "write2"}
        /\ \/ fs' = fs
           \/ fs' = [fs EXCEPT ![path] = StoredFile(Truncated, r.id)]
        /\ worker' = [worker EXCEPT ![w].pc = "failed",
                                    ![w].log = Append(r.log, r.pc)]
        /\ UNCHANGED <<served, textVars>>

\* Lines 65-66 when the operating system fails os.remove on a file that is
\* there: the file stays and the exception leaves the handler.
RemoveFails(w) ==
    LET r == worker[w]
        path == IF r.pc = "remove1" THEN r.file_path1 ELSE r.file_path2
    IN  /\ r.pc \in {"remove1", "remove2"}
        /\ fs[path].kind = "file"
        /\ worker' = [worker EXCEPT ![w].pc = "failed",
                                    ![w].log = Append(r.log, r.pc)]
        /\ UNCHANGED <<fs, served, textVars>>

\* Lines 49-67 for one request served alone on an empty folder and a file
\* system that does not fail: how the handler ends and what it returns.
handler_alone(u1, u2) ==
    LET path1 == PathJoin(UPLOAD_FOLDER, u1.filename)
        path2 == PathJoin(UPLOAD_FOLDER, u2.filename)
        written1 == [[p \in Paths |-> NoFile] EXCEPT ![path1] = StoredFile(u1.content, 1)]
        written2 == [written1 EXCEPT ![path2] = StoredFile(u2.content, 1)]
        out1 == extract_text(path1, written2)
        out2 == extract_text(path2, written2)
        result == IF ~out1.ok THEN ErrorString(out1.message)
                  ELSE IF ~out2.ok THEN ErrorString(out2.message)
                  ELSE Mapping(count_common_repeated_words(out1.text, out2.text))
    IN  IF path1 = path2
        THEN [pc |-> "failed", response |-> NoResponse]
        ELSE [pc |-> "done", response |-> Response(u1.filename, u2.filename, result)]

InitTextIdle ==
    /\ doc1 = <<>>
    /\ doc2 = <<>>
    /\ call = "none"
    /\ repeated1 = EmptyMap
    /\ repeated2 = EmptyMap
    /\ common = EmptyMap

\* Line 11: the uploads folder exists and no request has arrived.
InitHandlerIdle ==
    /\ fs = [p \in Paths |-> NoFile]
    /\ worker = [w \in Workers |-> IdleWorker]
    /\ served = 0

Init ==
    /\ InitHandlerIdle
    /\ InitTextIdle

\* The handler on a file system that does not fail.
Next ==
    \E w \in Workers :
        \/ Receive(w)
        \/ Write1(w)
        \/ Write2(w)
        \/ Extract1(w)
        \/ Extract2(w)
        \/ Remove1(w)
        \/ Remove2(w)

Spec == Init /\ [][Next]_vars

\* The handler on a file system whose writes and removals may fail.
NextIO ==
    \E w \in Workers :
        \/ Receive(w)
        \/ Write1(w)
        \/ Write2(w)
        \/ Extract1(w)
        \/ Extract2(w)
        \/ Remove1(w)
        \/ Remove2(w)
        \/ WriteFails(w)
        \/ RemoveFails(w)

SpecIO == Init /\ [][NextIO]_vars

----------------------------------------------------------------------------
(* The analysis as a state machine: SpecText *)

InitText ==
    /\ doc1 \in TextsUpTo(MaxLen) \cup SampleTexts
    /\ doc2 \in SampleTexts
    /\ call = "none"
    /\ repeated1 = EmptyMap
    /\ repeated2 = EmptyMap
    /\ common = EmptyMap
    /\ InitHandlerIdle

\* count_common_repeated_words(doc1, doc2)
CallCommon ==
    /\ call = "none"
    /\ call' = "forward"
    /\ repeated1' = count_repeated_words(doc1)
    /\ repeated2' = count_repeated_words(doc2)
    /\ common' = count_common_repeated_words(doc1, doc2)
    /\ UNCHANGED <<doc1, doc2, handlerVars>>

\* count_common_repeated_words(doc2, doc1)
CallCommonSwapped ==
    /\ call = "none"
    /\ call' = "swapped"
    /\ repeated1' = count_repeated_words(doc2)
    /\ repeated2' = count_repeated_words(doc1)
    /\ common' = count_common_repeated_words(doc2, doc1)
    /\ UNCHANGED <<doc1, doc2, handlerVars>>

NextText == CallCommon \/ CallCommonSwapped

SpecText == InitText /\ [][NextText]_vars

----------------------------------------------------------------------------
(* What the analysis is meant to compute, stated on character positions *)

\* The text in lower case without its punctuation.
Norm(text) == SelectSeq(Lower(text), LAMBDA c : c \in WordChars \cup SpaceChars)

\* The positions of s where the word w stands as a whole token: w is there,
\* and whitespace or the end of the text is on either side of it.
TokenStarts(w, s) ==
    {i \in 1..(Len(s) - Len(w) + 1) :
        /\ SubSeq(s, i, i + Len(w) - 1) = w
        /\ (i = 1 \/ s[i - 1] \in SpaceChars)
        /\ (i + Len(w) > Len(s) \/ s[i + Len(w)] \in SpaceChars)}

\* How often the word w occurs in text.
OccIn(w, text) == Cardinality(TokenStarts(w, Norm(text)))

\* The words of text.
WordsOf(text) ==
    LET s == Norm(text)
    IN  {w \in {SubSeq(s, i, j) : i \in 1..Len(s), j \in 1..Len(s)} :
            /\ w # <<>>
            /\ \A k \in 1..Len(w) : w[k] \notin SpaceChars
            /\ TokenStarts(w, s) # {}}

\* The arguments of the call that has returned, in the order they were passed.
Arg1 == IF call = "swapped" THEN doc2 ELSE doc1
Arg2 == IF call = "swapped" THEN doc1 ELSE doc2

\* C1: the mapping count_common_repeated_words returns has as keys exactly the
\* words occurring at least twice in the first text and at least twice in the
\* second, each with the smaller of its two counts; a word occurring exactly
\* once in either text is never a key.
C1_CommonIsMinOfRepeated ==
    call # "none" =>
        LET candidates == WordsOf(Arg1) \cup WordsOf(Arg2)
        IN  /\ DOMAIN common =
                {w \in candidates : OccIn(w, Arg1) >= 2 /\ OccIn(w, Arg2) >= 2}
            /\ \A w \in DOMAIN common :
                common[w] = Min(OccIn(w, Arg1), OccIn(w, Arg2))
            /\ \A w \in candidates :
                (OccIn(w, Arg1) = 1 \/ OccIn(w, Arg2) = 1) => w \notin DOMAIN common

\* "b b a a a" against "a a b": a is common with min(3, 2), b occurs once in the
\* second text and is left out.
C1_Witness ==
    /\ call = "forward"
    /\ doc1 = BBAAAText
    /\ doc2 = AABText
    /\ common = [w \in {Word("a")} |-> 2]

\* C6: count_repeated_words returns exactly the tokens of the lower-cased,
\* punctuation-free text that occur twice or more, each with its number of
\* occurrences; "Cat, cat CAT." counts cat 3 times and "a a b" yields only a
\* with count 2.
C6_RepeatedWordsOfText ==
    call = "forward" =>
        /\ DOMAIN repeated1 = {w \in WordsOf(doc1) : OccIn(w, doc1) >= 2}
        /\ \A w \in DOMAIN repeated1 : repeated1[w] = OccIn(w, doc1)
        /\ doc1 = CatText => repeated1 = [w \in {<<"c", "a", "t">>} |-> 3]
        /\ doc1 = AABText => repeated1 = [w \in {Word("a")} |-> 2]

C6_Witness ==
    /\ call = "forward"
    /\ doc1 = CatText
    /\ repeated1 = [w \in {<<"c", "a", "t">>} |-> 3]

\* C7: every key of the returned mapping is a key of both per-document
\* repeated-word mappings with a count of at least 1 there, and its reported
\* count exceeds neither of the two.
C7_CommonWithinBoth ==
    call # "none" =>
        \A w \in DOMAIN common :
            /\ w \in DOMAIN repeated1 /\ w \in DOMAIN repeated2
            /\ repeated1[w] >= 1 /\ repeated2[w] >= 1
            /\ common[w] <= repeated1[w] /\ common[w] <= repeated2[w]

\* A common word whose reported count is below its count in the first text.
C7_Witness ==
    /\ call # "none"
    /\ \E w \in DOMAIN common : common[w] < repeated1[w]

\* C8: when either text is empty the returned mapping is empty, whatever the
\* other text is.
C8_EmptyTextEmptyResult ==
    (call # "none" /\ (doc1 = <<>> \/ doc2 = <<>>)) => common = EmptyMap

\* The call returned the empty mapping for an empty second argument although
\* the first argument has repeated words.
C8_Witness ==
    /\ call = "forward"
    /\ doc2 = <<>>
    /\ repeated1 # EmptyMap
    /\ common = EmptyMap

\* C10: count_common_repeated_words(text1, text2) and
\* count_common_repeated_words(text2, text1) are the same mapping.
C10_Symmetric ==
    /\ call = "swapped" => common = count_common_repeated_words(doc1, doc2)
    /\ call = "forward" => common = count_common_repeated_words(doc2, doc1)

\* A swapped call on two texts whose repeated words differ, with a common word.
C10_Witness ==
    /\ call = "swapped"
    /\ repeated1 # repeated2
    /\ common # EmptyMap

----------------------------------------------------------------------------
(* The handler's claims *)

Has(log, step) == \E i \in 1..Len(log) : log[i] = step

\* Both steps are in the log, a before b.
Before(log, a, b) ==
    \E i \in 1..Len(log), j \in 1..Len(log) : i < j /\ log[i] = a /\ log[j] = b

\* C2: when a request has ended, by a response or by an exception, the
\* temporary files it wrote are gone: every file in the uploads folder belongs
\* to a request that is still running.
C2_NoTempFileOutlivesRequest ==
    \A p \in Paths :
        fs[p].kind = "file" =>
            \E w \in Workers : InFlight(w) /\ worker[w].id = fs[p].writer

\* C3: a request in which an extraction failed ends by returning a response
\* that carries the two uploaded file names and "Error: " with the failure's
\* message; no exception leaves the handler.
C3_ExtractionFailureIsReported ==
    \A w \in Workers :
        LET r == worker[w]
        IN  (Ended(w) /\ (~r.ex1.ok \/ ~r.ex2.ok)) =>
                /\ r.pc = "done"
                /\ r.response =
                    Response(r.file1.filename, r.file2.filename,
                             ErrorString(IF ~r.ex1.ok THEN r.ex1.message
                                         ELSE r.ex2.message))

\* C4: no request writes over, reads or removes a temporary file of another
\* request that is still running, and every request ends as it would have
\* ended alone.
C4_RequestsDoNotInteract ==
    \A w \in Workers :
        LET r == worker[w]
        IN  /\ ~r.interfered
            /\ Ended(w) =>
                /\ r.pc = handler_alone(r.file1, r.file2).pc
                /\ r.response = handler_alone(r.file1, r.file2).response

\* C5: every request ends by returning a response with the two original file
\* names, and when both extractions succeeded its common_repeated_words is the
\* analysis of the first upload's text and the second upload's text.
C5_ResponseIsOfTheTwoUploads ==
    \A w \in Workers :
        LET r == worker[w]
        IN  Ended(w) =>
                /\ r.pc = "done"
                /\ r.response.sent
                /\ r.response.filename1 = r.file1.filename
                /\ r.response.filename2 = r.file2.filename
                /\ (r.ex1.ok /\ r.ex2.ok) =>
                    r.response.common_repeated_words =
                        Mapping(count_common_repeated_words(
                                    PdfText(r.file1.content), PdfText(r.file2.content)))

\* C9: in every request both uploads are written before any extraction, file1
\* is extracted before file2, and a file is removed only after the extraction
\* has finished or failed; when the extraction of file1 fails, file2 is never
\* extracted and the error reported is that of file1.
C9_StepsInOrder ==
    \A w \in Workers :
        LET r == worker[w]
            log == r.log
        IN  /\ \A s \in {"extract1", "extract2"} :
                Has(log, s) => Before(log, "write1", s) /\ Before(log, "write2", s)
            /\ Has(log, "extract2") => Before(log, "extract1", "extract2")
            /\ \A s \in {"remove1", "remove2"} :
                Has(log, s) =>
                    /\ Before(log, "extract1", s)
                    /\ r.ex1.ok => Before(log, "extract2", s)
            /\ (Has(log, "extract1") /\ ~r.ex1.ok) =>
                /\ ~Has(log, "extract2")
                /\ r.common_repeated_words = ErrorString(r.ex1.message)
                /\ r.response.sent =>
                    r.response.common_repeated_words = ErrorString(r.ex1.message)

\* c.txt and a corrupt b.PDF: both would fail, the response reports the
\* unsupported type of the first and the second was never extracted.
C9_Witness ==
    \E w \in Workers :
        /\ worker[w].pc = "done"
        /\ worker[w].file1 = Upload(CTxt, PdfA)
        /\ worker[w].file2 = Upload(BPdfUpper, Corrupt)
        /\ worker[w].log = <<"write1", "write2", "extract1", "remove1", "remove2">>
        /\ worker[w].response.common_repeated_words =
            ErrorString([exc |-> "ValueError: Unsupported file type",
                         about |-> <<"t", "x", "t">>])

====
